---- MODULE Spec2Model ----
(***************************************************************************)
(* A model of the personal-finance dashboard: the ingestion batch          *)
(* (build_db.py, main) that rebuilds the three tables of finance.db, and   *)
(* the Reporting script (app.py) that loads the join and filters it.       *)
(*                                                                         *)
(* Values.  A text cell is a sequence of tokens: a token is a word, a      *)
(* whitespace token (" ") or the separator ",".  A parsed date is          *)
(* <<year, month, day>> and NaT is <<>>; a parsed amount is <<cents>> and  *)
(* NaN is <<>>.  A frame is [columns, dtypes, rows], as pandas.read_csv    *)
(* returns it; a row is the sequence of its cells.                         *)
(***************************************************************************)
EXTENDS Integers, Sequences, FiniteSets, TLC

VARIABLES
    db,            \* finance.db: the three tables and the set of tables that exist
    prev,          \* history: finance.db as it was when the current run started
    pc,            \* build_db process: idle, reading, built, wroteAccounts, wroteCategories, done, failed
    csv_files,     \* build_db: the globbed input files, in glob order
    file_i,        \* build_db: position of the for loop over csv_files
    df_list,       \* build_db: the accepted per-file frames
    accounts,      \* build_db: the Accounts frame
    categories,    \* build_db: the Categories frame
    transactions,  \* build_db: the Transactions frame
    error,         \* build_db: the exception that ended the run
    rpc,           \* app.py: position of the script
    df,            \* app.py: the frame load_data returned
    before,        \* history: `filtered` as it was before the latest filter stage
    filtered,      \* app.py: the filtered frame
    selection,     \* app.py: the widgets' resolved values
    report         \* app.py: the summary metrics, category totals and top 5

ingest_vars == <<db, prev, pc, csv_files, file_i, df_list, accounts, categories, transactions, error>>
vars == <<db, prev, pc, csv_files, file_i, df_list, accounts, categories, transactions, error,
          rpc, df, before, filtered, selection, report>>

\* ------------------------------------------------------------ bounds
\* The most files one input directory holds.
MaxFiles == 2

\* ------------------------------------------------------------ values
\* A missing field of a well-formed CSV: pandas reads it as the float nan.
CellNaN == <<"#float-nan">>
\* The pad str.split(expand=True) gives a row with fewer fields: None.
CellNone == <<"#None">>
NaT == <<>>
NaN == <<>>

EXPECTED_COLUMNS ==
    <<"transaction_id", "date", "account_name", "category_name", "type", "amount", "description">>

\* ------------------------------------------------------------ input files
\* What read_csv returns for each file of the pool the input directory is drawn from.
ObjectDtypes(n) == [i \in 1..n |-> "object"]

Jan ==
    [name |-> "Jan.csv", columns |-> EXPECTED_COLUMNS, dtypes |-> ObjectDtypes(7), rows |-> <<
      << <<"1">>, <<"2024-01-05">>, <<"Checking">>, <<"Groceries">>, <<"expense">>, <<"50.00">>, <<"milk">> >>,
      << <<"2">>, <<"2024-01-10">>, <<"Checking", " ">>, <<"Salary">>, <<"Income">>, <<"2000.00">>, <<"pay">> >> >>]

\* A repeated transaction_id, an unparsable amount, an unparsable date, a missing
\* account_name and description.
Feb ==
    [name |-> "Feb.csv", columns |-> EXPECTED_COLUMNS, dtypes |-> ObjectDtypes(7), rows |-> <<
      << <<"1">>, <<"2024-02-03">>, <<"Savings">>, <<" ", "Groceries">>, <<"expense">>, <<"abc">>, <<"food">> >>,
      << <<"5">>, <<"notadate">>, CellNaN, <<"Rent">>, <<"EXPENSE", " ">>, <<"75.00">>, CellNaN >> >>]

\* Every line exported as one quoted field: a single column. The second line has an
\* empty account_name and no description (six fields).
Collapsed ==
    [name |-> "Collapsed.csv",
     columns |-> <<"transaction_id,date,account_name,category_name,type,amount,description">>,
     dtypes |-> ObjectDtypes(1), rows |-> <<
      << <<"3", ",", "2024-01-15", ",", "Checking", ",", "Dining", ",", "expense", ",", "22.50", ",", "lunch">> >>,
      << <<"4", ",", "2024-02-20", ",", ",", "Savings", " ", "Goal", ",", "expense", ",", "10.00">> >> >>]

\* A header and no data row.
Empty ==
    [name |-> "Empty.csv", columns |-> EXPECTED_COLUMNS, dtypes |-> ObjectDtypes(7), rows |-> <<>>]

\* A single column whose every line splits into six fields.
Short ==
    [name |-> "Short.csv", columns |-> <<"transaction_id,date,account_name,category_name,type,amount">>,
     dtypes |-> ObjectDtypes(1), rows |-> <<
      << <<"6", ",", "2024-01-20", ",", "Checking", ",", "Dining", ",", "expense", ",", "9.00">> >> >>]

\* A single column with a line that splits into eight fields.
Long ==
    [name |-> "Long.csv", columns |-> <<"transaction_id,date,account_name,category_name,type,amount,description">>,
     dtypes |-> ObjectDtypes(1), rows |-> <<
      << <<"7", ",", "2024-01-21", ",", "Checking", ",", "Dining", ",", "expense", ",", "9.00", ",", "lunch", ",", " ", "tip">> >> >>]

\* A single numeric column.
Numbers ==
    [name |-> "Numbers.csv", columns |-> <<"amount">>, dtypes |-> <<"float64">>, rows |-> <<
      << <<"50.00">> >> >>]

SixCols ==
    [name |-> "SixCols.csv", columns |-> SubSeq(EXPECTED_COLUMNS, 1, 6), dtypes |-> ObjectDtypes(6), rows |-> <<
      << <<"8">>, <<"2024-01-22">>, <<"Checking">>, <<"Dining">>, <<"expense">>, <<"9.00">> >> >>]

EightCols ==
    [name |-> "EightCols.csv", columns |-> EXPECTED_COLUMNS \o <<"notes">>, dtypes |-> ObjectDtypes(8), rows |-> <<
      << <<"9">>, <<"2024-01-23">>, <<"Checking">>, <<"Dining">>, <<"expense">>, <<"9.00">>, <<"lunch">>, <<"n">> >> >>]

\* Seven columns, the first two in the other order.
Reordered ==
    [name |-> "Reordered.csv",
     columns |-> <<"date", "transaction_id", "account_name", "category_name", "type", "amount", "description">>,
     dtypes |-> ObjectDtypes(7), rows |-> <<
      << <<"2024-01-24">>, <<"10">>, <<"Checking">>, <<"Dining">>, <<"expense">>, <<"9.00">>, <<"lunch">> >> >>]

FilePool == {Jan, Feb, Collapsed, Empty, Short, Long, Numbers, SixCols, EightCols, Reordered}

\* The directory listings: up to MaxFiles files of distinct names, in any glob order.
Batches ==
    UNION {{b \in [1..n -> FilePool] : \A i, j \in 1..n : i # j => b[i].name # b[j].name} : n \in 0..MaxFiles}

\* ------------------------------------------------------------ build_db.py
\* Series.str.split(","): the fields of a cell, cut at every "," token.
RECURSIVE StrSplit(_)
StrSplit(cell) ==
    IF \A i \in 1..Len(cell) : cell[i] # ","
    THEN <<cell>>
    ELSE LET i == CHOOSE k \in 1..Len(cell) : cell[k] = "," /\ \A j \in 1..(k - 1) : cell[j] # ","
         IN <<SubSeq(cell, 1, i - 1)>> \o StrSplit(SubSeq(cell, i + 1, Len(cell)))

Max(S) == IF S = {} THEN 0 ELSE CHOOSE m \in S : \A x \in S : x <= m

\* expand=True: one column per field, as many as the longest row has; shorter rows are padded with None.
SplitExpand(rows) ==
    LET parts == [i \in 1..Len(rows) |-> StrSplit(rows[i][1])]
        width == Max({Len(parts[i]) : i \in 1..Len(rows)})
    IN [width |-> width,
        rows |-> [i \in 1..Len(rows) |->
                    [j \in 1..width |-> IF j <= Len(parts[i]) THEN parts[i][j] ELSE CellNone]]]

\* Lines 28-38 for one file: the frame to append, or the exception raised.
\* "ColumnMismatch" is line 36's ValueError, the only one whose message names the file;
\* "LengthMismatch" is the ValueError pandas raises at line 33 when the split did not give
\* seven columns; "AttributeError" is what .str raises at line 32 on a non-string column.
ColumnsMatch(columns) == columns = EXPECTED_COLUMNS

NoError == [kind |-> "none", file |-> ""]

LoadFile(file) ==
    IF Len(file.columns) = 1
    THEN IF file.dtypes[1] # "object"
         THEN [error |-> [kind |-> "AttributeError", file |-> ""], rows |-> <<>>]
         ELSE LET split == SplitExpand(file.rows)
              IN IF split.width # Len(EXPECTED_COLUMNS)
                 THEN [error |-> [kind |-> "LengthMismatch", file |-> ""], rows |-> <<>>]
                 ELSE [error |-> NoError, rows |-> split.rows]
    ELSE IF ~ColumnsMatch(file.columns)
         THEN [error |-> [kind |-> "ColumnMismatch", file |-> file.name], rows |-> <<>>]
         ELSE [error |-> NoError, rows |-> file.rows]

\* The guard left out.
NoCsvFilesAlways(files) == FALSE

\* Line 21: the guard on an empty glob.
NoCsvFiles(files) == files = <<>>

\* A frame row as a record, by the canonical labels.
AsRecord(row) ==
    [transaction_id |-> row[1], date |-> row[2], account_name |-> row[3], category_name |-> row[4],
     type |-> row[5], amount |-> row[6], description |-> row[7]]

\* pd.concat(df_list, ignore_index=True)
RECURSIVE Concat(_)
Concat(frames) ==
    IF frames = <<>> THEN <<>>
    ELSE [i \in 1..Len(Head(frames)) |-> AsRecord(Head(frames)[i])] \o Concat(Tail(frames))

\* pd.to_datetime(errors="coerce"): an ISO date parses, anything else is NaT.
DateValue ==
    ("2024-01-05" :> <<2024, 1, 5>>) @@ ("2024-01-10" :> <<2024, 1, 10>>) @@ ("2024-01-15" :> <<2024, 1, 15>>) @@
    ("2024-02-03" :> <<2024, 2, 3>>) @@ ("2024-02-20" :> <<2024, 2, 20>>)

ToDatetime(cell) ==
    IF Len(cell) = 1 /\ cell[1] \in DOMAIN DateValue THEN DateValue[cell[1]] ELSE NaT

\* pd.to_numeric(errors="coerce"): a decimal parses (here to cents), anything else is NaN.
AmountValue ==
    ("50.00" :> <<5000>>) @@ ("2000.00" :> <<200000>>) @@ ("75.00" :> <<7500>>) @@
    ("22.50" :> <<2250>>) @@ ("10.00" :> <<1000>>)

ToNumeric(cell) ==
    IF Len(cell) = 1 /\ cell[1] \in DOMAIN AmountValue THEN AmountValue[cell[1]] ELSE NaN

\* astype(str): nan and None become the strings "nan" and "None".
AsTypeStr(cell) ==
    IF cell = CellNaN THEN <<"nan">> ELSE IF cell = CellNone THEN <<"None">> ELSE cell

IsSpace(tok) == tok \in {" ", "\t"}

RECURSIVE LStrip(_)
LStrip(s) == IF s # <<>> /\ IsSpace(Head(s)) THEN LStrip(Tail(s)) ELSE s

RECURSIVE RStrip(_)
RStrip(s) == IF s # <<>> /\ IsSpace(s[Len(s)]) THEN RStrip(SubSeq(s, 1, Len(s) - 1)) ELSE s

\* str.strip()
Strip(s) == RStrip(LStrip(s))

\* Lines 44-48.
Clean(r) ==
    [r EXCEPT !.date = ToDatetime(@), !.amount = ToNumeric(@),
              !.account_name = Strip(AsTypeStr(@)), !.category_name = Strip(AsTypeStr(@)),
              !.type = Strip(AsTypeStr(@)), !.description = Strip(AsTypeStr(@))]

\* The names with their repetitions kept.
KeepAll(names) == names

\* drop_duplicates(): the first occurrence of each value, in order.
RECURSIVE DropDuplicates(_)
DropDuplicates(names) ==
    IF names = <<>> THEN <<>>
    ELSE LET rest == DropDuplicates(SubSeq(names, 1, Len(names) - 1))
             last == names[Len(names)]
         IN IF \E i \in 1..Len(rest) : rest[i] = last THEN rest ELSE Append(rest, last)

\* The index itself as the key.
ZeroBasedId(index) == index

\* Lines 52 and 55: the surrogate key of the row at a 0-based index.
SurrogateId(index) == index + 1

\* Lines 51-52.
AccountsFrame(rows) ==
    LET names == DropDuplicates([i \in 1..Len(rows) |-> rows[i].account_name])
    IN [i \in 1..Len(names) |-> [account_name |-> names[i], account_id |-> SurrogateId(i - 1)]]

\* Lines 54-55.
CategoriesFrame(rows) ==
    LET names == DropDuplicates([i \in 1..Len(rows) |-> rows[i].category_name])
    IN [i \in 1..Len(names) |-> [category_name |-> names[i], category_id |-> SurrogateId(i - 1)]]

\* Line 57: the inner merge on account_name, in the order of the left rows.
RECURSIVE MergeAccounts(_, _)
MergeAccounts(rows, accts) ==
    IF rows = <<>> THEN <<>>
    ELSE LET r == Head(rows)
             hits == SelectSeq(accts, LAMBDA a : a.account_name = r.account_name)
         IN [i \in 1..Len(hits) |-> [account_id |-> hits[i].account_id] @@ r]
            \o MergeAccounts(Tail(rows), accts)

\* Line 58: the inner merge on category_name.
RECURSIVE MergeCategories(_, _)
MergeCategories(rows, cats) ==
    IF rows = <<>> THEN <<>>
    ELSE LET r == Head(rows)
             hits == SelectSeq(cats, LAMBDA c : c.category_name = r.category_name)
         IN [i \in 1..Len(hits) |-> [category_id |-> hits[i].category_id] @@ r]
            \o MergeCategories(Tail(rows), cats)

\* The projection with the two key columns taken from each other.
ProjectSwapped(r) ==
    [transaction_id |-> r.transaction_id, date |-> r.date, type |-> r.type, amount |-> r.amount,
     description |-> r.description, account_id |-> r.category_id, category_id |-> r.account_id]

\* Lines 60-70: the projection to the Transactions columns.
Project(r) ==
    [transaction_id |-> r.transaction_id, date |-> r.date, type |-> r.type, amount |-> r.amount,
     description |-> r.description, account_id |-> r.account_id, category_id |-> r.category_id]

\* Lines 41-70: the three frames built from the accepted per-file frames.
Build(frames) ==
    LET cleaned == [i \in 1..Len(Concat(frames)) |-> Clean(Concat(frames)[i])]
        accts == AccountsFrame(cleaned)
        cats == CategoriesFrame(cleaned)
        merged == MergeCategories(MergeAccounts(cleaned, accts), cats)
    IN [accounts |-> accts, categories |-> cats,
        transactions |-> [i \in 1..Len(merged) |-> Project(merged[i])]]

\* to_sql with if_exists="append": the rows are added to the table.
ToSqlAppend(store, table, rows) ==
    [store EXCEPT ![table] = @ \o rows, !.tables = @ \cup {table}]

\* to_sql(table, conn, if_exists="replace"): the table is dropped and written anew.
ToSql(store, table, rows) ==
    [store EXCEPT ![table] = rows, !.tables = @ \cup {table}]

\* The three tables written in one transaction.
WriteAllTables ==
    ToSql(ToSql(ToSql(db, "Accounts", accounts), "Categories", categories), "Transactions", transactions)

\* Line 74.
WriteAccountsTable == ToSql(db, "Accounts", accounts)

NoStore == [Accounts |-> <<>>, Categories |-> <<>>, Transactions |-> <<>>, tables |-> {}]

\* ------------------------------------------------------------ app.py: load_data
NotLoaded == [state |-> "none", rows |-> <<>>]

\* ORDER BY t.date: ascending, NULL first; rows of equal date keep the table's order.
DateLess(a, b) ==
    IF a = NaT THEN b # NaT
    ELSE b # NaT /\ (a[1] < b[1] \/ (a[1] = b[1] /\ (a[2] < b[2] \/ (a[2] = b[2] /\ a[3] < b[3]))))

RECURSIVE OrderByDate(_)
OrderByDate(rows) ==
    IF rows = <<>> THEN <<>>
    ELSE LET sorted == OrderByDate(SubSeq(rows, 1, Len(rows) - 1))
             r == rows[Len(rows)]
             k == Cardinality({i \in 1..Len(sorted) : ~DateLess(r.date, sorted[i].date)})
         IN SubSeq(sorted, 1, k) \o <<r>> \o SubSeq(sorted, k + 1, Len(sorted))

\* The query's two inner joins, on account_id and on category_id.
RECURSIVE JoinRows(_, _, _)
JoinRows(trans, accts, cats) ==
    IF trans = <<>> THEN <<>>
    ELSE LET t == Head(trans)
             as == SelectSeq(accts, LAMBDA a : a.account_id = t.account_id)
             cs == SelectSeq(cats, LAMBDA c : c.category_id = t.category_id)
             out == [k \in 1..(Len(as) * Len(cs)) |->
                       [transaction_id |-> t.transaction_id, date |-> t.date,
                        description |-> t.description, amount |-> t.amount, type |-> t.type,
                        account_name |-> as[((k - 1) \div Len(cs)) + 1].account_name,
                        category_name |-> cs[((k - 1) % Len(cs)) + 1].category_name]]
         IN out \o JoinRows(Tail(trans), accts, cats)

\* Lines 10-28: the joined frame, with its index, or the query's error on a missing table.
LoadData(store) ==
    IF store.tables # {"Accounts", "Categories", "Transactions"}
    THEN [state |-> "no such table", rows |-> <<>>]
    ELSE LET joined == OrderByDate(JoinRows(store.Transactions, store.Accounts, store.Categories))
         IN [state |-> "loaded", rows |-> [i \in 1..Len(joined) |-> [index |-> i - 1] @@ joined[i]]]

\* Line 41: str.lower(), token by token.
LowerTok(tok) ==
    CASE tok \in {"Income", "INCOME"} -> "income"
      [] tok \in {"Expense", "EXPENSE"} -> "expense"
      [] tok \in {"Savings", "SAVINGS"} -> "savings"
      [] OTHER -> tok

StrLower(s) == [i \in 1..Len(s) |-> LowerTok(s[i])]

\* Line 46: dt.to_period("M").astype(str); the bucket of a null date is the label "NaT".
YearMonth(date) == IF date = NaT THEN <<"NaT">> ELSE <<date[1], date[2]>>

\* Lines 39-46: the loaded frame with type lowered and year_month added.
LoadFrame(store) ==
    LET got == LoadData(store)
    IN [state |-> got.state,
        rows |-> [i \in 1..Len(got.rows) |->
                    [year_month |-> YearMonth(got.rows[i].date)] @@
                    [got.rows[i] EXCEPT !.type = StrLower(@)]]]

\* Line 48.
AvailableMonths(rows) == {rows[i].year_month : i \in 1..Len(rows)}

\* The month filter without the guard on an empty selection.
MonthStageNoGuard(rows, selected) == SelectSeq(rows, LAMBDA r : r.year_month \in selected)

\* Lines 89-90: an empty selection leaves the frame as it is.
MonthStage(rows, selected) ==
    IF selected # {} THEN SelectSeq(rows, LAMBDA r : r.year_month \in selected) ELSE rows

\* Lines 95-96: the dates min() and max() range over (nulls are skipped).
ValidDates(rows) == {rows[i].date : i \in 1..Len(rows)} \ {NaT}

\* The days the date input offers: those between the least and the greatest date of df.
CalendarDays == {DateValue[s] : s \in DOMAIN DateValue} \cup {<<2024, 1, 31>>}

DateChoices(rows) ==
    {d \in CalendarDays : /\ \E v \in ValidDates(rows) : ~DateLess(d, v)
                          /\ \E w \in ValidDates(rows) : ~DateLess(w, d)}

\* Lines 106-109: a comparison with a null date is False.
DateStage(rows, start_date, end_date) ==
    SelectSeq(rows, LAMBDA r : /\ r.date # NaT
                               /\ ~DateLess(r.date, start_date)
                               /\ ~DateLess(end_date, r.date))

\* Line 112.
CategoryOptions(rows) == {rows[i].category_name : i \in 1..Len(rows)}

\* Lines 118-119.
CategoryStage(rows, selected) ==
    IF selected # {} THEN SelectSeq(rows, LAMBDA r : r.category_name \in selected) ELSE rows

\* The category filter applied to df instead of filtered.
CategoryFilteredFromDf(selected) == CategoryStage(df.rows, selected)

\* Lines 118-119, on the frame the date filter left.
CategoryFiltered(selected) == CategoryStage(filtered, selected)

\* Line 122.
AccountOptions(rows) == {rows[i].account_name : i \in 1..Len(rows)}

\* Lines 128-129.
AccountStage(rows, selected) ==
    IF selected # {} THEN SelectSeq(rows, LAMBDA r : r.account_name \in selected) ELSE rows

\* Series.sum(): nulls are skipped.
RECURSIVE SumAmount(_)
SumAmount(rows) ==
    IF rows = <<>> THEN 0
    ELSE (IF Head(rows).amount = NaN THEN 0 ELSE Head(rows).amount[1]) + SumAmount(Tail(rows))

\* Line 138: str.contains("Savings", case=False), on the words of the name.
ContainsSavings(name) == \E i \in 1..Len(name) : LowerTok(name[i]) = "savings"

\* Line 196: head(5).
TopN == 5

\* Line 196: sort_values("amount", ascending=False): greatest first, nulls last, ties in frame order.
AmountBefore(a, b) == a # NaN /\ (b = NaN \/ a[1] > b[1])

RECURSIVE SortByAmountDesc(_)
SortByAmountDesc(rows) ==
    IF rows = <<>> THEN <<>>
    ELSE LET sorted == SortByAmountDesc(SubSeq(rows, 1, Len(rows) - 1))
             r == rows[Len(rows)]
             k == Cardinality({i \in 1..Len(sorted) : ~AmountBefore(r.amount, sorted[i].amount)})
         IN SubSeq(sorted, 1, k) \o <<r>> \o SubSeq(sorted, k + 1, Len(sorted))

Head5(rows) == SubSeq(rows, 1, IF Len(rows) < TopN THEN Len(rows) ELSE TopN)

\* Lines 133-211.
ReportOf(rows) ==
    LET income == SumAmount(SelectSeq(rows, LAMBDA r : r.type = <<"income">>))
        expenses == SumAmount(SelectSeq(rows, LAMBDA r : r.type = <<"expense">>))
        expense_df == SelectSeq(rows, LAMBDA r : r.type = <<"expense">>)
    IN [income |-> income,
        expenses |-> expenses,
        net |-> income - expenses,
        saved |-> SumAmount(SelectSeq(rows, LAMBDA r : ContainsSavings(r.category_name))),
        category_totals |->
            {[category_name |-> c,
              amount |-> SumAmount(SelectSeq(expense_df, LAMBDA r : r.category_name = c))] :
             c \in CategoryOptions(expense_df)},
        top5 |-> Head5(SortByAmountDesc(expense_df))]

\* build_db.main from the glob to conn.close(), for a batch every file of which is accepted.
StoreOf(files) ==
    LET built == Build([i \in 1..Len(files) |-> LoadFile(files[i]).rows])
    IN [Accounts |-> built.accounts, Categories |-> built.categories,
        Transactions |-> built.transactions, tables |-> {"Accounts", "Categories", "Transactions"}]

\* ------------------------------------------------------------ the ingestion run
NoSelection == [months |-> {}, start |-> NaT, end |-> NaT, categories |-> {}, accounts |-> {}]
NoReport == [income |-> 0, expenses |-> 0, net |-> 0, saved |-> 0, category_totals |-> {}, top5 |-> <<>>]

\* The Reporting session, if any, is over by the time ingestion takes its next step.
SessionOver ==
    /\ rpc' = "start"
    /\ df' = NotLoaded
    /\ before' = <<>>
    /\ filtered' = <<>>
    /\ selection' = NoSelection
    /\ report' = NoReport

Init ==
    /\ db = NoStore
    /\ prev = NoStore
    /\ pc = "idle"
    /\ csv_files = <<>>
    /\ file_i = 1
    /\ df_list = <<>>
    /\ accounts = <<>>
    /\ categories = <<>>
    /\ transactions = <<>>
    /\ error = NoError
    /\ rpc = "start"
    /\ df = NotLoaded
    /\ before = <<>>
    /\ filtered = <<>>
    /\ selection = NoSelection
    /\ report = NoReport

\* A run of build_db.py starts: lines 19-24.
StartRun ==
    /\ pc = "idle"
    /\ \E batch \in Batches :
        /\ csv_files' = batch
        /\ IF NoCsvFiles(batch)
           THEN pc' = "failed" /\ error' = [kind |-> "FileNotFoundError", file |-> ""]
           ELSE pc' = "reading" /\ error' = NoError
    /\ prev' = db
    /\ file_i' = 1
    /\ df_list' = <<>>
    /\ accounts' = <<>>
    /\ categories' = <<>>
    /\ transactions' = <<>>
    /\ UNCHANGED db
    /\ SessionOver

\* One turn of the for loop: lines 26-38.
ReadFile ==
    /\ pc = "reading"
    /\ file_i <= Len(csv_files)
    /\ LET got == LoadFile(csv_files[file_i])
       IN IF got.error # NoError
          THEN pc' = "failed" /\ error' = got.error /\ UNCHANGED <<df_list, file_i>>
          ELSE pc' = pc /\ error' = error /\ df_list' = Append(df_list, got.rows) /\ file_i' = file_i + 1
    /\ UNCHANGED <<db, prev, csv_files, accounts, categories, transactions>>
    /\ SessionOver

\* Lines 41-70.
BuildTables ==
    /\ pc = "reading"
    /\ file_i > Len(csv_files)
    /\ accounts' = Build(df_list).accounts
    /\ categories' = Build(df_list).categories
    /\ transactions' = Build(df_list).transactions
    /\ pc' = "built"
    /\ UNCHANGED <<db, prev, csv_files, file_i, df_list, error>>
    /\ SessionOver

\* Line 74.
WriteAccounts ==
    /\ pc = "built"
    /\ db' = WriteAccountsTable
    /\ pc' = "wroteAccounts"
    /\ UNCHANGED <<prev, csv_files, file_i, df_list, accounts, categories, transactions, error>>
    /\ SessionOver

\* Line 75.
WriteCategories ==
    /\ pc = "wroteAccounts"
    /\ db' = ToSql(db, "Categories", categories)
    /\ pc' = "wroteCategories"
    /\ UNCHANGED <<prev, csv_files, file_i, df_list, accounts, categories, transactions, error>>
    /\ SessionOver

\* Lines 76-80.
WriteTransactions ==
    /\ pc = "wroteCategories"
    /\ db' = ToSql(db, "Transactions", transactions)
    /\ pc' = "done"
    /\ UNCHANGED <<prev, csv_files, file_i, df_list, accounts, categories, transactions, error>>
    /\ SessionOver

\* Line 83: main returns or the exception leaves it, and the process is gone.
Exit ==
    /\ pc \in {"done", "failed"}
    /\ pc' = "idle"
    /\ prev' = db
    /\ csv_files' = <<>>
    /\ file_i' = 1
    /\ df_list' = <<>>
    /\ accounts' = <<>>
    /\ categories' = <<>>
    /\ transactions' = <<>>
    /\ error' = NoError
    /\ UNCHANGED db
    /\ SessionOver

\* app.py lines 39-46: a Reporting session loads the join, whatever ingestion is doing.
Load ==
    /\ rpc = "start"
    /\ df' = LoadFrame(db)
    /\ rpc' = IF LoadFrame(db).state = "loaded" THEN "loaded" ELSE "crashed"
    /\ before' = <<>>
    /\ filtered' = <<>>
    /\ selection' = NoSelection
    /\ report' = NoReport
    /\ UNCHANGED ingest_vars

\* Lines 48-54 and 86-90: the month multiselect and the month filter.
MonthFilter ==
    /\ rpc = "loaded"
    /\ \E selected_months \in SUBSET AvailableMonths(df.rows) :
        /\ selection' = [selection EXCEPT !.months = selected_months]
        /\ filtered' = MonthStage(df.rows, selected_months)
    /\ before' = df.rows
    /\ rpc' = "months"
    /\ UNCHANGED <<df, report>>
    /\ UNCHANGED ingest_vars

\* Lines 95-109: the date range input and the date filter. With no valid date in df,
\* min() and max() are NaT: the date input either refuses them and the script stops, or
\* hands NaT back, and no row passes a comparison with NaT.
DateFilter ==
    /\ rpc = "months"
    /\ IF ValidDates(df.rows) = {}
       THEN \/ /\ rpc' = "crashed"
               /\ UNCHANGED <<before, filtered, selection>>
            \/ /\ selection' = [selection EXCEPT !.start = NaT, !.end = NaT]
               /\ filtered' = DateStage(filtered, NaT, NaT)
               /\ before' = filtered
               /\ rpc' = "dates"
       ELSE /\ \E start_date, end_date \in DateChoices(df.rows) :
                /\ ~DateLess(end_date, start_date)
                /\ selection' = [selection EXCEPT !.start = start_date, !.end = end_date]
                /\ filtered' = DateStage(filtered, start_date, end_date)
            /\ before' = filtered
            /\ rpc' = "dates"
    /\ UNCHANGED <<df, report>>
    /\ UNCHANGED ingest_vars

\* Lines 112-119.
CategoryFilter ==
    /\ rpc = "dates"
    /\ \E selected_categories \in SUBSET CategoryOptions(filtered) :
        /\ selection' = [selection EXCEPT !.categories = selected_categories]
        /\ filtered' = CategoryFiltered(selected_categories)
    /\ before' = filtered
    /\ rpc' = "categories"
    /\ UNCHANGED <<df, report>>
    /\ UNCHANGED ingest_vars

\* Lines 122-129.
AccountFilter ==
    /\ rpc = "categories"
    /\ \E selected_accounts \in SUBSET AccountOptions(filtered) :
        /\ selection' = [selection EXCEPT !.accounts = selected_accounts]
        /\ filtered' = AccountStage(filtered, selected_accounts)
    /\ before' = filtered
    /\ rpc' = "accounts"
    /\ UNCHANGED <<df, report>>
    /\ UNCHANGED ingest_vars

\* Lines 133-211: the metrics, the category totals and the top 5.
Summarize ==
    /\ rpc = "accounts"
    /\ report' = ReportOf(filtered)
    /\ rpc' = "done"
    /\ UNCHANGED <<df, before, filtered, selection>>
    /\ UNCHANGED ingest_vars

Next ==
    \/ StartRun
    \/ ReadFile
    \/ BuildTables
    \/ WriteAccounts
    \/ WriteCategories
    \/ WriteTransactions
    \/ Exit
    \/ Load

Spec == Init /\ [][Next]_vars

\* The Reporting script alone, over finance.db as a completed run (or none) left it.
InitReport ==
    /\ db \in {NoStore} \cup {StoreOf(b) : b \in {x \in Batches : x # <<>> /\ \A i \in 1..Len(x) : LoadFile(x[i]).error = NoError}}
    /\ prev = NoStore
    /\ pc = "idle"
    /\ csv_files = <<>>
    /\ file_i = 1
    /\ df_list = <<>>
    /\ accounts = <<>>
    /\ categories = <<>>
    /\ transactions = <<>>
    /\ error = NoError
    /\ rpc = "start"
    /\ df = NotLoaded
    /\ before = <<>>
    /\ filtered = <<>>
    /\ selection = NoSelection
    /\ report = NoReport

NextReport ==
    \/ Load
    \/ MonthFilter
    \/ DateFilter
    \/ CategoryFilter
    \/ AccountFilter
    \/ Summarize

SpecReport == InitReport /\ [][NextReport]_vars

\* ------------------------------------------------------------ claims
AllTables == {"Accounts", "Categories", "Transactions"}

\* The concatenated working set of the current run: the accepted frames, stacked.
InputRows == Concat(df_list)

\* The text of a cell: what astype(str) makes of it.
TextOf(cell) == AsTypeStr(cell)

\* n is s without its leading and trailing whitespace.
IsTrimOf(n, s) ==
    \E i \in 1..(Len(s) + 1), j \in 0..Len(s) :
        /\ n = SubSeq(s, i, j)
        /\ \A k \in 1..(i - 1) : IsSpace(s[k])
        /\ \A k \in (j + 1)..Len(s) : IsSpace(s[k])
        /\ n # <<>> => ~IsSpace(n[1]) /\ ~IsSpace(n[Len(n)])

RECURSIVE SumDataRows(_)
SumDataRows(files) ==
    IF files = <<>> THEN 0 ELSE Len(Head(files).rows) + SumDataRows(Tail(files))

\* C1: after a completed run over files that all pass the header check, Transactions has
\* as many rows as the input files have data rows together: none dropped, none duplicated.
C1_RowCountPreserved ==
    pc = "done" =>
        /\ Len(db.Transactions) = SumDataRows(csv_files)
        /\ Len(transactions) = SumDataRows(csv_files)

\* C1 witness: a completed run over two files holding a null date, a null amount, a
\* missing account_name ("nan") and an empty account_name.
C1_Witness ==
    /\ pc = "done"
    /\ Len(csv_files) = 2
    /\ Len(db.Transactions) = 4
    /\ \E i \in 1..Len(db.Transactions) : db.Transactions[i].date = NaT
    /\ \E i \in 1..Len(db.Transactions) : db.Transactions[i].amount = NaN
    /\ \E i \in 1..Len(db.Accounts) : db.Accounts[i].account_name = <<"nan">>
    /\ \E i \in 1..Len(db.Accounts) : db.Accounts[i].account_name = <<>>

\* The position of the first input row whose trimmed name is n.
FirstAccountRow(n) ==
    CHOOSE k \in 1..Len(InputRows) :
        /\ IsTrimOf(n, TextOf(InputRows[k].account_name))
        /\ \A j \in 1..(k - 1) : ~IsTrimOf(n, TextOf(InputRows[j].account_name))

FirstCategoryRow(n) ==
    CHOOSE k \in 1..Len(InputRows) :
        /\ IsTrimOf(n, TextOf(InputRows[k].category_name))
        /\ \A j \in 1..(k - 1) : ~IsTrimOf(n, TextOf(InputRows[j].category_name))

\* C2: after a completed run, Accounts holds one row per distinct trimmed account_name of
\* the input, no name twice, with account_id 1..N in order of first occurrence; the same
\* for Categories.
C2_DimensionsExact ==
    pc = "done" =>
        /\ \A k \in 1..Len(InputRows) : \E i \in 1..Len(db.Accounts) :
               IsTrimOf(db.Accounts[i].account_name, TextOf(InputRows[k].account_name))
        /\ \A i \in 1..Len(db.Accounts) : \E k \in 1..Len(InputRows) :
               IsTrimOf(db.Accounts[i].account_name, TextOf(InputRows[k].account_name))
        /\ \A i, j \in 1..Len(db.Accounts) :
               /\ db.Accounts[i].account_id = i
               /\ i # j => db.Accounts[i].account_name # db.Accounts[j].account_name
               /\ i < j => FirstAccountRow(db.Accounts[i].account_name)
                             < FirstAccountRow(db.Accounts[j].account_name)
        /\ \A k \in 1..Len(InputRows) : \E i \in 1..Len(db.Categories) :
               IsTrimOf(db.Categories[i].category_name, TextOf(InputRows[k].category_name))
        /\ \A i \in 1..Len(db.Categories) : \E k \in 1..Len(InputRows) :
               IsTrimOf(db.Categories[i].category_name, TextOf(InputRows[k].category_name))
        /\ \A i, j \in 1..Len(db.Categories) :
               /\ db.Categories[i].category_id = i
               /\ i # j => db.Categories[i].category_name # db.Categories[j].category_name
               /\ i < j => FirstCategoryRow(db.Categories[i].category_name)
                             < FirstCategoryRow(db.Categories[j].category_name)

\* C2 witness: a completed run in which two spellings of a name ("Checking" and
\* "Checking ") fell into one Accounts row and at least three accounts were numbered.
C2_Witness ==
    /\ pc = "done"
    /\ Len(db.Accounts) >= 3
    /\ \E k \in 1..Len(InputRows) : InputRows[k].account_name = <<"Checking", " ">>
    /\ \E k \in 1..Len(InputRows) : InputRows[k].account_name = <<"Checking">>
    /\ Cardinality({i \in 1..Len(db.Accounts) : db.Accounts[i].account_name = <<"Checking">>}) = 1

\* C3: after a completed run, every Transactions row's account_id is the id of exactly one
\* Accounts row, which carries the trimmed name the transaction had in its file; the same
\* for category_id.
C3_ReferencesResolve ==
    pc = "done" =>
        \A k \in 1..Len(db.Transactions) :
            /\ k <= Len(InputRows)
            /\ Cardinality({i \in 1..Len(db.Accounts) :
                              db.Accounts[i].account_id = db.Transactions[k].account_id}) = 1
            /\ \A i \in 1..Len(db.Accounts) :
                   db.Accounts[i].account_id = db.Transactions[k].account_id =>
                       IsTrimOf(db.Accounts[i].account_name, TextOf(InputRows[k].account_name))
            /\ Cardinality({i \in 1..Len(db.Categories) :
                              db.Categories[i].category_id = db.Transactions[k].category_id}) = 1
            /\ \A i \in 1..Len(db.Categories) :
                   db.Categories[i].category_id = db.Transactions[k].category_id =>
                       IsTrimOf(db.Categories[i].category_name, TextOf(InputRows[k].category_name))

\* C3 witness: a completed run with a transaction whose account_id and category_id differ.
C3_Witness ==
    /\ pc = "done"
    /\ \E k \in 1..Len(db.Transactions) :
           /\ db.Transactions[k].account_id # db.Transactions[k].category_id
           /\ db.Transactions[k].account_id > 1

\* The number of fields str.split gives a collapsed line: one more than its commas.
FieldCount(cell) == Cardinality({i \in 1..Len(cell) : cell[i] = ","}) + 1

\* The file's columns, after the single-column split repair, are not the canonical header.
Mismatch(file) ==
    IF Len(file.columns) = 1
    THEN \/ file.dtypes[1] # "object"
         \/ Max({FieldCount(file.rows[i][1]) : i \in 1..Len(file.rows)}) # 7
    ELSE file.columns # EXPECTED_COLUMNS

BadBatch(files) == files = <<>> \/ \E i \in 1..Len(files) : Mismatch(files[i])

\* C4: a run over an empty directory, or over a batch with a mismatching file anywhere in
\* it, never gets past the reading loop and leaves finance.db as it was before the run.
C4_NoPartialWrite ==
    (pc # "idle" /\ BadBatch(csv_files)) =>
        /\ db = prev
        /\ pc \in {"reading", "failed"}
        /\ pc = "reading" => \E i \in file_i..Len(csv_files) : Mismatch(csv_files[i])

\* C4 witness: a run that failed on its second file after accepting the first, with a
\* store of an earlier run in place.
C4_Witness ==
    /\ pc = "failed"
    /\ Len(csv_files) = 2
    /\ ~Mismatch(csv_files[1])
    /\ Mismatch(csv_files[2])
    /\ prev.tables = AllTables
    /\ prev.Transactions # <<>>
    /\ db = prev

\* C5: a run that failed on a file fails with the column-mismatch error naming that file.
C5_MismatchNamesFile ==
    (pc = "failed" /\ csv_files # <<>>) =>
        /\ error.kind = "ColumnMismatch"
        /\ error.file = csv_files[file_i].name

\* C6: after a completed run, finance.db is the store built from that run's files alone,
\* whatever earlier runs wrote.
C6_LastRunOnly ==
    pc = "done" => db = StoreOf(csv_files)

\* C6 witness: a completed run that replaced a different, non-empty store of an earlier run.
C6_Witness ==
    /\ pc = "done"
    /\ prev.tables = AllTables
    /\ prev.Transactions # <<>>
    /\ db.Transactions # <<>>
    /\ \A i \in 1..Len(prev.Accounts) : \A j \in 1..Len(db.Accounts) :
           prev.Accounts[i].account_name # db.Accounts[j].account_name

RowSet(rows) == {rows[i] : i \in 1..Len(rows)}

\* C7: after every filter stage the filtered rows are among the rows the stage was given,
\* no more of them, and among the loaded rows.
C7_FilterMonotone ==
    rpc \in {"months", "dates", "categories", "accounts", "done"} =>
        /\ RowSet(filtered) \subseteq RowSet(before)
        /\ Len(filtered) <= Len(before)
        /\ RowSet(filtered) \subseteq RowSet(df.rows)
        /\ Len(before) <= Len(df.rows)

\* C7 witness: the category stage narrowed a set the date stage had already narrowed.
C7_Witness ==
    /\ rpc = "categories"
    /\ Len(filtered) >= 1
    /\ Len(filtered) < Len(before)
    /\ Len(before) < Len(df.rows)

\* C8: at each multi-select stage, the full option set and the empty selection both leave
\* the stage's input as it is.
C8_SelectAllNoOp ==
    /\ rpc = "months" =>
           (selection.months \in {{}, {before[i].year_month : i \in 1..Len(before)}}
                => filtered = before)
    /\ rpc = "categories" =>
           (selection.categories \in {{}, {before[i].category_name : i \in 1..Len(before)}}
                => filtered = before)
    /\ rpc = "accounts" =>
           (selection.accounts \in {{}, {before[i].account_name : i \in 1..Len(before)}}
                => filtered = before)

\* C8 witness: the full month selection, the "NaT" bucket included, kept a frame that
\* holds a row with a null date beside rows with a date.
C8_Witness ==
    /\ rpc = "months"
    /\ <<"NaT">> \in selection.months
    /\ selection.months = {before[i].year_month : i \in 1..Len(before)}
    /\ \E i \in 1..Len(before) : before[i].date # NaT
    /\ filtered = before

\* C8, the other case: the empty month selection kept such a frame.
C8_EmptySelectionState ==
    /\ rpc = "months"
    /\ selection.months = {}
    /\ \E i \in 1..Len(before) : before[i].date = NaT
    /\ filtered = before

\* C9: a null-amount row adds nothing to income, expenses, net, savings or a category
\* total, is never among the top 5, and no null-date row passes the date filter.
C9_NullsExcluded ==
    rpc = "done" =>
        LET valid == SelectSeq(filtered, LAMBDA r : r.amount # NaN)
        IN /\ report.income = ReportOf(valid).income
           /\ report.expenses = ReportOf(valid).expenses
           /\ report.net = ReportOf(valid).net
           /\ report.saved = ReportOf(valid).saved
           /\ \A t \in report.category_totals :
                  t.amount = SumAmount(SelectSeq(valid, LAMBDA r : r.type = <<"expense">>
                                                                  /\ r.category_name = t.category_name))
           /\ \A i \in 1..Len(report.top5) : report.top5[i].amount # NaN
           /\ \A i \in 1..Len(filtered) : filtered[i].date # NaT

\* C9, the part of it the code keeps: the sums skip null amounts and the date filter
\* drops null dates.
C9_SumsAndDatesExcludeNulls ==
    rpc = "done" =>
        LET valid == SelectSeq(filtered, LAMBDA r : r.amount # NaN)
        IN /\ report.income = ReportOf(valid).income
           /\ report.expenses = ReportOf(valid).expenses
           /\ report.net = ReportOf(valid).net
           /\ report.saved = ReportOf(valid).saved
           /\ \A t \in report.category_totals :
                  t.amount = SumAmount(SelectSeq(valid, LAMBDA r : r.type = <<"expense">>
                                                                  /\ r.category_name = t.category_name))
           /\ \A i \in 1..Len(filtered) : filtered[i].date # NaT

\* C9, a state where those sums have something to skip: a null-amount expense row in the
\* filtered frame beside a row with an amount.
C9_NullAmountSummed ==
    /\ rpc = "done"
    /\ \E i \in 1..Len(filtered) : filtered[i].amount = NaN /\ filtered[i].type = <<"expense">>
    /\ report.expenses > 0

\* The store a load between the write steps reads: the new dimension tables written so
\* far, beside what the earlier run left.
TornStore ==
    [Accounts |-> accounts,
     Categories |-> IF pc = "wroteCategories" THEN categories ELSE prev.Categories,
     Transactions |-> prev.Transactions,
     tables |-> prev.tables \cup (IF pc = "wroteCategories" THEN {"Accounts", "Categories"} ELSE {"Accounts"})]

NewStore ==
    [Accounts |-> accounts, Categories |-> categories, Transactions |-> transactions, tables |-> AllTables]

\* C10: a load taken between the write steps reads the new dimension tables written so
\* far joined with the Transactions (and Categories) of the earlier run.
C10_TornRead ==
    (df.state # "none" /\ pc \in {"wroteAccounts", "wroteCategories"}) => df = LoadFrame(TornStore)

\* C10 witness: such a load over an earlier snapshot gave a frame that is neither the old
\* join nor the new one: a row is missing from it or carries another name.
C10_Witness ==
    /\ pc = "wroteCategories"
    /\ df.state = "loaded"
    /\ prev.tables = AllTables
    /\ df # LoadFrame(prev)
    /\ df # LoadFrame(NewStore)
    /\ \/ Len(df.rows) < Len(LoadFrame(prev).rows)
       \/ \E i \in 1..Len(df.rows) : df.rows[i] \notin RowSet(LoadFrame(prev).rows) \cup RowSet(LoadFrame(NewStore).rows)

====
